---- MODULE Spec2Model ----
(***************************************************************************)
(* VibeShuffle: the playback session of src/main.py (class MusicPlayer),   *)
(* the pygame.mixer.music backend it drives, and the three threads of      *)
(* main(): the command loop, the hotkey listener and the end-of-track      *)
(* poll loop.                                                              *)
(*                                                                         *)
(* Embedding vectors are pairs of integers in hundredths (0.05 is 5), and  *)
(* L2 distances are compared through their squares, which orders them as   *)
(* np.linalg.norm does.  Indices are 0-based as in the source; a sequence  *)
(* s holds index i at s[i + 1].                                            *)
(***************************************************************************)
EXTENDS Integers, Sequences, FiniteSets, TLC

VARIABLES
    playlist_paths,       \* self.playlist_paths
    music_embeddings,     \* self.music_embeddings
    current_embedding,    \* self.current_embedding (None is <<>>)
    current_track_index,  \* self.current_track_index
    next_tracks_indices,  \* self.next_tracks_indices
    is_playing,           \* self.is_playing
    history,              \* self.history, deque(maxlen = n - 1)
    recently_played,      \* self.recently_played, deque(maxlen = n - 1)
    loaded,               \* the track pygame.mixer.music holds
    music,                \* pygame.mixer.music: "idle", "playing", "paused"
    events,               \* USEREVENTs waiting in pygame's event queue
    alive,                \* the threads of main() no exception has ended
    poll_pc,              \* where the poll loop of run() stands
    poll_events,          \* events check_music_end fetched and has not handled
    last_op,              \* the last operation that completed (bookkeeping)
    music_directory,      \* the mp3 files under self.music_directory
    cache_directory,      \* the .npz records under self.cache_directory
    last_seen,            \* the files as initialize_embeddings last found them
    run_log,              \* what the last initialize_embeddings did (bookkeeping)
    main_pc,              \* where main() stands
    combined              \* shuffle_playlist's local list of (path, embedding)

vars == <<playlist_paths, music_embeddings, current_embedding,
          current_track_index, next_tracks_indices, is_playing, history,
          recently_played, loaded, music, events, alive,
          poll_pc, poll_events, last_op,
          music_directory, cache_directory, last_seen, run_log,
          main_pc, combined>>

(* main() and the local of the shuffle_playlist it calls *)
main_vars == <<main_pc, combined>>

(* the files, the cache and their bookkeeping *)
cache_vars == <<music_directory, cache_directory, last_seen, run_log>>

----------------------------------------------------------------------------
(* Bounds and program constants *)

MaxTracks == 3

MaxEvents == 1

K == 17

DupThreshold == 26

None == <<>>

NoIndex == 0 - 1

Vec(t) ==
    CASE t = "A" -> <<0, 0>>
      [] t = "B" -> <<100, 0>>
      [] t = "C" -> <<500, 500>>
      [] t = "D" -> <<5, 0>>

Catalog == <<"A", "D", "B", "C">>

Playlists == { SubSeq(Catalog, 1, n) : n \in 1 .. MaxTracks }

Threads == {"cmd", "hotkey", "poll"}

----------------------------------------------------------------------------
(* Helpers *)

At(s, i) == s[i + 1]

Indices(w) == 0 .. (Len(w.playlist_paths) - 1)

Elems(s) == { s[i] : i \in 1 .. Len(s) }

Min(a, b) == IF a < b THEN a ELSE b

Take(s, k) == SubSeq(s, 1, Min(k, Len(s)))

Dist2(u, v) == (u[1] - v[1]) * (u[1] - v[1]) + (u[2] - v[2]) * (u[2] - v[2])

IsDuplicate(u, v) == Dist2(u, v) < DupThreshold * DupThreshold

maxlen(w) == Len(w.playlist_paths) - 1

(* deque_append without the eviction that maxlen forces *)
deque_append_unbounded(d, x, m) == Append(d, x)

deque_append(d, x, m) ==
    IF m = 0 THEN d
    ELSE IF Len(d) >= m THEN Append(Tail(d), x)
    ELSE Append(d, x)

World ==
    [ playlist_paths |-> playlist_paths,
      music_embeddings |-> music_embeddings,
      current_embedding |-> current_embedding,
      current_track_index |-> current_track_index,
      next_tracks_indices |-> next_tracks_indices,
      is_playing |-> is_playing,
      history |-> history,
      recently_played |-> recently_played,
      loaded |-> loaded,
      music |-> music ]

Commit(w) ==
    /\ playlist_paths' = w.playlist_paths
    /\ music_embeddings' = w.music_embeddings
    /\ current_embedding' = w.current_embedding
    /\ current_track_index' = w.current_track_index
    /\ next_tracks_indices' = w.next_tracks_indices
    /\ is_playing' = w.is_playing
    /\ history' = w.history
    /\ recently_played' = w.recently_played
    /\ loaded' = w.loaded
    /\ music' = w.music

(* What an operation leaves behind: the world, whether it raised, whether *)
(* it called play_current_track, whether it skipped a duplicate.          *)
Outcome(w, raised, played, skipped) ==
    [ w |-> w, raised |-> raised, played |-> played, skipped |-> skipped ]

----------------------------------------------------------------------------
(* MusicPlayer *)

(* pygame.mixer.music.get_busy(): True while the stream is actively      *)
(* playing; since pygame 2.0.1 it is False while the music is paused.    *)
get_busy(w) == w.music = "playing"

play_current_track(w) ==
    [ w EXCEPT
        !.is_playing = TRUE,
        !.current_embedding = At(w.music_embeddings, w.current_track_index),
        !.loaded = At(w.playlist_paths, w.current_track_index),
        !.music = "playing",
        !.history = deque_append(w.history, w.current_track_index, maxlen(w)),
        !.recently_played =
            deque_append(w.recently_played, w.current_track_index, maxlen(w)) ]

toggle_play_pause(w) ==
    IF ~w.is_playing
    THEN LET w1 == [w EXCEPT !.is_playing = TRUE] IN
         IF ~get_busy(w1)
         THEN Outcome(play_current_track(w1), FALSE, TRUE, FALSE)
         ELSE Outcome([w1 EXCEPT !.music = "playing"], FALSE, FALSE, FALSE)
    ELSE Outcome([w EXCEPT !.music = IF @ = "playing" THEN "paused" ELSE @,
                           !.is_playing = FALSE], FALSE, FALSE, FALSE)

(* distances[idx], with np.inf for the indices of recently_played *)
Distance(w, i) ==
    IF i \in Elems(w.recently_played)
    THEN [inf |-> TRUE, d |-> 0]
    ELSE [inf |-> FALSE, d |-> Dist2(At(w.music_embeddings, i), w.current_embedding)]

Less(a, b) == ~a.inf /\ (b.inf \/ a.d < b.d)

(* np.argsort: every order of the indices that is ascending in distance; *)
(* the default sort is not stable, so equal distances come in any order. *)
argsort(w) ==
    LET n == Len(w.playlist_paths) IN
    { p \in [1 .. n -> Indices(w)] :
        /\ \A i, j \in 1 .. n : i # j => p[i] # p[j]
        /\ \A i, j \in 1 .. n :
             i < j => ~Less(Distance(w, p[j]), Distance(w, p[i])) }

find_nearest_embeddings(w) == { Take(p, K) : p \in argsort(w) }

(* like_song that refills the queue only when it is empty *)
like_song_if_empty(w) ==
    IF w.current_embedding # None /\ Len(w.next_tracks_indices) = 0
    THEN { Outcome([w EXCEPT !.next_tracks_indices = nn], FALSE, FALSE, FALSE) :
             nn \in find_nearest_embeddings(w) }
    ELSE { Outcome(w, FALSE, FALSE, FALSE) }

like_song(w) ==
    IF w.current_embedding # None
    THEN { Outcome([w EXCEPT !.next_tracks_indices = nn], FALSE, FALSE, FALSE) :
             nn \in find_nearest_embeddings(w) }
    ELSE { Outcome(w, FALSE, FALSE, FALSE) }

(* lines 165-170 without the test of is_playing *)
play_always(w) == Outcome(play_current_track(w), FALSE, TRUE, FALSE)

(* lines 165-170: play the selection only if playback is active *)
play_if_playing(w) ==
    IF w.is_playing
    THEN Outcome(play_current_track(w), FALSE, TRUE, FALSE)
    ELSE Outcome(w, FALSE, FALSE, FALSE)

(* lines 139-157, from the queue q0 that line 137 may have refilled *)
select_similar(w, q0) ==
    LET head == q0[1]
        dup == IsDuplicate(At(w.music_embeddings, w.current_track_index),
                           At(w.music_embeddings, head))
        rp1 == IF dup THEN deque_append(w.recently_played, head, maxlen(w))
                      ELSE w.recently_played
        q1 == IF dup THEN Tail(q0) ELSE q0
    IN  IF Len(q1) = 0
        THEN \* IndexError at line 155
             Outcome([w EXCEPT !.recently_played = rp1,
                               !.next_tracks_indices = q1], TRUE, FALSE, dup)
        ELSE LET o == play_if_playing(
                          [w EXCEPT !.recently_played = rp1,
                                    !.current_track_index = q1[1],
                                    !.next_tracks_indices = Tail(q1),
                                    !.current_embedding =
                                        At(w.music_embeddings, q1[1])])
             IN  Outcome(o.w, FALSE, o.played, dup)

(* next_track whose random branch keeps recently_played and the queue *)
next_track_no_reset(w, similar) ==
    IF similar /\ w.current_embedding # None
    THEN { select_similar(w, q0) :
             q0 \in IF Len(w.next_tracks_indices) = 0
                    THEN find_nearest_embeddings(w)
                    ELSE { w.next_tracks_indices } }
    ELSE { play_if_playing(
               [w EXCEPT !.current_track_index = r,
                         !.current_embedding = At(w.music_embeddings, r)]) :
             r \in Indices(w) }

next_track(w, similar) ==
    IF similar /\ w.current_embedding # None
    THEN { select_similar(w, q0) :
             q0 \in IF Len(w.next_tracks_indices) = 0
                    THEN find_nearest_embeddings(w)
                    ELSE { w.next_tracks_indices } }
    ELSE { play_if_playing(
               [w EXCEPT !.current_track_index = r,
                         !.current_embedding = At(w.music_embeddings, r),
                         !.recently_played = <<>>,
                         !.next_tracks_indices = <<>>]) :
             r \in Indices(w) }

(* previous_track that pops the current entry only and selects it again *)
previous_track_pop_once(w) ==
    LET n == Len(w.playlist_paths)
        w1 == IF Len(w.history) > 1
              THEN [w EXCEPT
                      !.history = SubSeq(w.history, 1, Len(w.history) - 1),
                      !.current_track_index = w.history[Len(w.history)]]
              ELSE [w EXCEPT
                      !.current_track_index = (w.current_track_index - 1) % n]
    IN  play_if_playing(w1)

(* previous_track with the fallback's modulo left out *)
previous_track_no_wrap(w) ==
    LET w1 == IF Len(w.history) > 1
              THEN [w EXCEPT
                      !.history = SubSeq(w.history, 1, Len(w.history) - 2),
                      !.current_track_index = w.history[Len(w.history) - 1]]
              ELSE [w EXCEPT
                      !.current_track_index = w.current_track_index - 1]
    IN  play_if_playing(w1)

previous_track(w) ==
    LET n == Len(w.playlist_paths)
        w1 == IF Len(w.history) > 1
              THEN [w EXCEPT
                      !.history = SubSeq(w.history, 1, Len(w.history) - 2),
                      !.current_track_index = w.history[Len(w.history) - 1]]
              ELSE [w EXCEPT
                      !.current_track_index = (w.current_track_index - 1) % n]
    IN  play_if_playing(w1)

Permutations_(n) ==
    { p \in [1 .. n -> 1 .. n] : \A i, j \in 1 .. n : i # j => p[i] # p[j] }

shuffle_playlist(w) ==
    LET n == Len(w.playlist_paths) IN
    { Outcome([w EXCEPT
                 !.playlist_paths = [i \in 1 .. n |-> w.playlist_paths[p[i]]],
                 !.music_embeddings = [i \in 1 .. n |-> w.music_embeddings[p[i]]],
                 !.recently_played = <<>>], FALSE, FALSE, FALSE) :
        p \in Permutations_(n) }

(* play_song_by_index that resets the queues before it validates index *)
play_song_by_index_reset_first(w, index) ==
    LET w1 == [w EXCEPT !.next_tracks_indices = <<>>,
                        !.recently_played = <<>>]
    IN  IF 0 <= index /\ index < Len(w.playlist_paths)
        THEN Outcome(play_current_track(
                         [w1 EXCEPT !.current_track_index = index]),
                     FALSE, TRUE, FALSE)
        ELSE Outcome(w1, FALSE, FALSE, FALSE)

play_song_by_index(w, index) ==
    IF 0 <= index /\ index < Len(w.playlist_paths)
    THEN Outcome(play_current_track(
                     [w EXCEPT !.current_track_index = index,
                               !.next_tracks_indices = <<>>,
                               !.recently_played = <<>>]), FALSE, TRUE, FALSE)
    ELSE Outcome(w, FALSE, FALSE, FALSE)

(* No operation has been called *)
NoOp ==
    [ name |-> "init", raised |-> FALSE, played |-> FALSE, skipped |-> FALSE,
      prior |-> NoIndex, back |-> NoIndex, queued |-> FALSE ]

(* No initialize_embeddings has run *)
NoRun ==
    [ ran |-> FALSE, first |-> FALSE, calls |-> <<>>, vectors |-> <<>>,
      prev |-> <<>>, written |-> {} ]

----------------------------------------------------------------------------
(* The state after MusicPlayer(music_directory), the playlist in the order *)
(* it is played in                                                         *)

Constructed ==
    /\ playlist_paths \in Playlists
    /\ music_embeddings = [i \in 1 .. Len(playlist_paths) |-> Vec(playlist_paths[i])]
    /\ current_embedding = None
    /\ current_track_index = 0
    /\ next_tracks_indices = <<>>
    /\ is_playing = FALSE
    /\ history = <<>>
    /\ recently_played = <<>>
    /\ loaded = "none"
    /\ music = "idle"
    /\ events = 0
    /\ alive = Threads
    /\ poll_pc = "sleep"
    /\ poll_events = 0
    /\ last_op = NoOp
    /\ music_directory = <<>>
    /\ cache_directory = <<>>
    /\ last_seen = <<>>
    /\ run_log = NoRun
    /\ combined = <<>>

(* main() has shuffled the playlist and started its threads *)
Init == Constructed /\ main_pc = "threads"

----------------------------------------------------------------------------
(* Calls of the player's operations *)

Selecting == {"next_random", "next_similar", "auto_next", "select"}

(* last_op, the operation that completed last: its name, whether it raised, *)
(* whether it started a track, whether it skipped a duplicate; prior, the   *)
(* index that was current when it began, if status was Playing then and the *)
(* operation started a track; and, for previous, back: the prior of the     *)
(* operation before it, if that was a next or a select that started a track;*)
(* for like, queued: whether the pending queue held anything when it began.  *)
Record(name, o) ==
    last_op' = [name |-> name, raised |-> o.raised, played |-> o.played,
                skipped |-> o.skipped,
                prior |-> IF is_playing /\ o.played
                          THEN current_track_index ELSE NoIndex,
                back |-> IF name = "previous" /\ last_op.name \in Selecting
                            /\ last_op.played
                         THEN last_op.prior ELSE NoIndex,
                queued |-> name = "like" /\ next_tracks_indices # <<>>]

(* One call, by thread t, with one of the outcomes outs. An exception ends *)
(* the thread that made the call.                                          *)
Call(t, name, outs) ==
    \E o \in outs :
        /\ Commit(o.w)
        /\ Record(name, o)
        /\ alive' = IF o.raised THEN alive \ {t} ELSE alive
        /\ UNCHANGED <<cache_vars, main_vars>>

SelectIndices == NoIndex .. Len(playlist_paths)

IdlePoll == UNCHANGED <<events, poll_pc, poll_events>>

(* The operations of MusicPlayer, called one at a time by a client *)
Toggle == Call("client", "toggle", {toggle_play_pause(World)}) /\ IdlePoll

Like == Call("client", "like", like_song(World)) /\ IdlePoll

NextRandom == Call("client", "next_random", next_track(World, FALSE)) /\ IdlePoll

NextSimilar == Call("client", "next_similar", next_track(World, TRUE)) /\ IdlePoll

Previous == Call("client", "previous", {previous_track(World)}) /\ IdlePoll

Select ==
    /\ \E index \in SelectIndices :
          Call("client", "select", {play_song_by_index(World, index)})
    /\ IdlePoll

Shuffle == Call("client", "shuffle", shuffle_playlist(World)) /\ IdlePoll

NextApi ==
    \/ Toggle
    \/ Like
    \/ NextRandom
    \/ NextSimilar
    \/ Previous
    \/ Select
    \/ Shuffle

SpecApi == Init /\ [][NextApi]_vars

----------------------------------------------------------------------------
(* The threads of main() *)

(* handle_user_input: one command of the command loop *)
handle_user_input ==
    /\ "cmd" \in alive
    /\ \/ Call("cmd", "toggle", {toggle_play_pause(World)})
       \/ Call("cmd", "like", like_song(World))
       \/ Call("cmd", "next_random", next_track(World, FALSE))
       \/ Call("cmd", "next_similar", next_track(World, TRUE))
       \/ Call("cmd", "previous", {previous_track(World)})
       \/ \E index \in Indices(World) :
             Call("cmd", "select", {play_song_by_index(World, index)})
    /\ IdlePoll

(* on_press: one hotkey *)
on_press ==
    /\ "hotkey" \in alive
    /\ \/ Call("hotkey", "next_random", next_track(World, FALSE))
       \/ Call("hotkey", "next_similar", next_track(World, TRUE))
       \/ Call("hotkey", "like", like_song(World))
       \/ Call("hotkey", "toggle", {toggle_play_pause(World)})
    /\ IdlePoll

(* The backend: the track that is playing comes to its end and the end  *)
(* event set at line 36 is posted.                                      *)
TrackFinished ==
    /\ music = "playing"
    /\ events < MaxEvents
    /\ music' = "idle"
    /\ events' = events + 1
    /\ UNCHANGED <<playlist_paths, music_embeddings, current_embedding,
                   current_track_index, next_tracks_indices, is_playing,
                   history, recently_played, loaded, alive, poll_pc,
                   poll_events, last_op, cache_vars, main_vars>>

(* run(), line 245: the poll loop reads is_playing *)
PollRead ==
    /\ "poll" \in alive
    /\ poll_pc = "sleep"
    /\ poll_pc' = IF is_playing THEN "check" ELSE "sleep"
    /\ UNCHANGED <<playlist_paths, music_embeddings, current_embedding,
                   current_track_index, next_tracks_indices, is_playing,
                   history, recently_played, loaded, music, events, alive,
                   poll_events, last_op, cache_vars, main_vars>>

(* check_music_end(), line 239: pygame.event.get() empties the queue *)
PollGet ==
    /\ "poll" \in alive
    /\ poll_pc = "check"
    /\ poll_events' = events
    /\ events' = 0
    /\ poll_pc' = IF events = 0 THEN "sleep" ELSE "handle"
    /\ UNCHANGED <<playlist_paths, music_embeddings, current_embedding,
                   current_track_index, next_tracks_indices, is_playing,
                   history, recently_played, loaded, music, alive, last_op,
                   cache_vars, main_vars>>

(* check_music_end(), lines 240-241: next_track(similar=True) per event; *)
(* an exception leaves run() and ends the poll loop.                     *)
PollHandle ==
    /\ "poll" \in alive
    /\ poll_pc = "handle"
    /\ Call("poll", "auto_next", next_track(World, TRUE))
    /\ poll_events' = IF "poll" \in alive' THEN poll_events - 1 ELSE 0
    /\ poll_pc' = IF "poll" \in alive' /\ poll_events > 1 THEN "handle" ELSE "sleep"
    /\ UNCHANGED events

run == PollRead \/ PollGet \/ PollHandle

Next ==
    \/ handle_user_input
    \/ on_press
    \/ TrackFinished
    \/ run

Spec == Init /\ [][Next]_vars

----------------------------------------------------------------------------
(* initialize_embeddings and the embedding cache *)

MaxFiles == 2

(* Path.rglob("*.mp3"): the files of the music directory, subdirectories *)
(* included, in the order the file system lists them                     *)
AllFiles == <<"a/x.mp3", "b/x.mp3", "a/y.mp3">>

current_files == SubSeq(AllFiles, 1, MaxFiles)

Files == Elems(current_files)

(* file.name: the last component of the path *)
file_name(f) ==
    CASE f = "a/x.mp3" -> "x.mp3"
      [] f = "b/x.mp3" -> "x.mp3"
      [] f = "a/y.mp3" -> "y.mp3"

(* The bytes a file can hold, named after the track they encode *)
Contents == {"A", "D", "B"}

(* os.path.getsize: A and D are recordings of the same length in bytes *)
getsize(c) ==
    CASE c = "A" -> 10
      [] c = "D" -> 10
      [] c = "B" -> 20

(* audio_embed: a function of the audio the file holds *)
audio_embed(c) == Vec(c)

(* f"{file_name}_{file_size}.npz" *)
cache_file(dir, f) == <<file_name(f), getsize(dir[f])>>

CacheFiles == { <<file_name(f), getsize(c)>> : f \in Files, c \in Contents }

exists(cache, k) == cache[k] # None

(* Step 1: the files whose cache file exists, and the others *)
cached_files(dir, cache) ==
    SelectSeq(current_files, LAMBDA f : exists(cache, cache_file(dir, f)))

new_files(dir, cache) ==
    SelectSeq(current_files, LAMBDA f : ~exists(cache, cache_file(dir, f)))

(* Step 2: np.savez_compressed of audio_embed(file), file by file *)
RECURSIVE savez(_, _, _)
savez(dir, cache, files) ==
    IF files = <<>> THEN cache
    ELSE savez(dir,
               [cache EXCEPT ![cache_file(dir, Head(files))] =
                                 audio_embed(dir[Head(files)])],
               Tail(files))

(* The embedding initialize_embeddings appends for file f *)
embedding_of(dir, cache, f) ==
    IF exists(cache, cache_file(dir, f))
    THEN cache[cache_file(dir, f)]
    ELSE audio_embed(dir[f])

Count(s, x) == Cardinality({ i \in 1 .. Len(s) : s[i] = x })

(* One run of initialize_embeddings (lines 51-101) *)
initialize_embeddings ==
    LET dir == music_directory
        cache == cache_directory
        order == cached_files(dir, cache) \o new_files(dir, cache)
    IN  /\ playlist_paths' = order
        /\ music_embeddings' =
               [i \in 1 .. Len(order) |-> embedding_of(dir, cache, order[i])]
        /\ cache_directory' = savez(dir, cache, new_files(dir, cache))
        /\ last_seen' = dir
        /\ run_log' =
               [ ran |-> TRUE,
                 first |-> ~run_log.ran,
                 calls |-> [f \in Files |-> Count(new_files(dir, cache), f)],
                 vectors |-> [f \in Files |-> embedding_of(dir, cache, f)],
                 prev |-> run_log.vectors,
                 written |-> { f \in Files : dir[f] # last_seen[f] } ]
        /\ UNCHANGED <<music_directory, current_embedding, current_track_index,
                       next_tracks_indices, is_playing, history,
                       recently_played, loaded, music, events, alive, poll_pc,
                       poll_events, last_op, main_vars>>

(* Between two runs of the program a file of the music directory is *)
(* replaced by other audio under the same path.                     *)
WriteFile ==
    /\ \E f \in Files, c \in Contents :
          /\ c # music_directory[f]
          /\ music_directory' = [music_directory EXCEPT ![f] = c]
    /\ UNCHANGED <<playlist_paths, music_embeddings, current_embedding,
                   current_track_index, next_tracks_indices, is_playing,
                   history, recently_played, loaded, music, events, alive,
                   poll_pc, poll_events, last_op, cache_directory, last_seen,
                   run_log, main_vars>>

(* Before the first run: any files, an empty cache directory *)
InitCache ==
    /\ playlist_paths = <<>>
    /\ music_embeddings = <<>>
    /\ current_embedding = None
    /\ current_track_index = 0
    /\ next_tracks_indices = <<>>
    /\ is_playing = FALSE
    /\ history = <<>>
    /\ recently_played = <<>>
    /\ loaded = "none"
    /\ music = "idle"
    /\ events = 0
    /\ alive = Threads
    /\ poll_pc = "sleep"
    /\ poll_events = 0
    /\ last_op = NoOp
    /\ music_directory \in [Files -> Contents]
    /\ cache_directory = [k \in CacheFiles |-> None]
    /\ last_seen = music_directory
    /\ run_log = NoRun
    /\ main_pc = "construct"
    /\ combined = <<>>

NextCache ==
    \/ initialize_embeddings
    \/ WriteFile

SpecCache == InitCache /\ [][NextCache]_vars

----------------------------------------------------------------------------
(* main(): shuffle_playlist, store by store, and then the threads *)

zip_reversed(a, b) ==
    [i \in 1 .. Min(Len(a), Len(b)) |-> <<a[i], b[Len(b) + 1 - i]>>]

zip(a, b) == [i \in 1 .. Min(Len(a), Len(b)) |-> <<a[i], b[i]>>]

(* random.shuffle: any order *)
random_shuffle(c) ==
    { [i \in 1 .. Len(c) |-> c[p[i]]] : p \in Permutations_(Len(c)) }

(* the k-th of the tuples the unpacking zip of line 207 yields *)
unzip(c, k) == [i \in 1 .. Len(c) |-> c[i][k]]

(* lines 205-206 *)
ShuffleCombine ==
    /\ main_pc = "shuffle"
    /\ combined' \in random_shuffle(zip(playlist_paths, music_embeddings))
    /\ main_pc' = "store_paths"
    /\ UNCHANGED <<playlist_paths, music_embeddings, current_embedding,
                   current_track_index, next_tracks_indices, is_playing,
                   history, recently_played, loaded, music, events, alive,
                   poll_pc, poll_events, last_op, cache_vars>>

(* line 207, the first target of the assignment (and line 208) *)
ShuffleStorePaths ==
    /\ main_pc = "store_paths"
    /\ playlist_paths' = unzip(combined, 1)
    /\ main_pc' = "store_embeddings"
    /\ UNCHANGED <<music_embeddings, current_embedding,
                   current_track_index, next_tracks_indices, is_playing,
                   history, recently_played, loaded, music, events, alive,
                   poll_pc, poll_events, last_op, cache_vars, combined>>

(* line 207, the second target (and line 209), then line 210; main() *)
(* goes on to start its threads                                      *)
ShuffleStoreEmbeddings ==
    /\ main_pc = "store_embeddings"
    /\ music_embeddings' = unzip(combined, 2)
    /\ recently_played' = <<>>
    /\ combined' = <<>>
    /\ main_pc' = "threads"
    /\ UNCHANGED <<playlist_paths, current_embedding,
                   current_track_index, next_tracks_indices, is_playing,
                   history, loaded, music, events, alive,
                   poll_pc, poll_events, last_op, cache_vars>>

(* lines 313-326: the command loop and the hotkey listener, started *)
(* after shuffle_playlist has returned                              *)
MainCommand == main_pc = "threads" /\ handle_user_input

MainHotkey == main_pc = "threads" /\ on_press

(* main() is about to call shuffle_playlist (line 311) *)
InitMain == Constructed /\ main_pc = "shuffle"

NextMain ==
    \/ ShuffleCombine
    \/ ShuffleStorePaths
    \/ ShuffleStoreEmbeddings
    \/ MainCommand
    \/ MainHotkey

SpecMain == InitMain /\ [][NextMain]_vars

----------------------------------------------------------------------------
(* Properties *)

NumTracks == Len(playlist_paths)

(* The step records a call of one of the operations named *)
Called(names) == last_op'.name \in names

(* C1: recently_played and history never hold more than n - 1 entries, *)
(* whatever operations were called, the append of a skipped duplicate  *)
(* included.                                                           *)
C1_RecencyBound ==
    /\ Len(recently_played) <= NumTracks - 1
    /\ Len(history) <= NumTracks - 1

(* C1 witness: both deques are full right after a next(similar) that   *)
(* skipped a duplicate and played the candidate behind it.             *)
C1_Witness ==
    /\ NumTracks >= 3
    /\ last_op.name = "next_similar" /\ last_op.skipped /\ last_op.played
    /\ Len(recently_played) = NumTracks - 1
    /\ Len(history) = NumTracks - 1

(* C2: a queue generated by find_nearest_embeddings, by like or by      *)
(* next(similar) on an empty queue, holds no index that recently_played *)
(* held when it was generated.                                          *)
C2_QueueExcludesRecent ==
    [][ ((Like \/ (NextSimilar /\ next_tracks_indices = <<>>))
          /\ current_embedding # None)
        => \A i \in Elems(next_tracks_indices') : i \notin Elems(recently_played)
      ]_vars

(* The queue next(similar) works on: the pending queue, or what line 137 *)
(* refills an empty one with.                                            *)
WorkingQueues ==
    IF Len(next_tracks_indices) = 0
    THEN find_nearest_embeddings(World)
    ELSE { next_tracks_indices }

CurrentVector == At(music_embeddings, current_track_index)

(* C3: a next(similar) that selects a track never selects one within the *)
(* duplicate threshold of the track that was current when it started, as *)
(* long as its queue holds a candidate at or beyond the threshold.       *)
C3_DuplicateSuppression ==
    [][ ( /\ NextSimilar
          /\ current_embedding # None
          /\ ~last_op'.raised
          /\ \A q0 \in WorkingQueues :
                \E i \in Elems(q0) :
                   ~IsDuplicate(CurrentVector, At(music_embeddings, i)) )
        => ~IsDuplicate(CurrentVector, At(music_embeddings, current_track_index'))
      ]_vars

(* C4: handling a track-finished event never raises, and the poll loop *)
(* of run() keeps running.                                             *)
C4_PollLoopSurvives ==
    /\ "poll" \in alive
    /\ ~(last_op.name = "auto_next" /\ last_op.raised)

(* C5: when the poll loop calls next_track(similar=True), is_playing, *)
(* on which it decided to check for the end of the track, still holds. *)
C5_PollStatusCurrent == poll_pc = "handle" => is_playing

(* C6: right after shuffle_playlist, recently_played, history and the *)
(* pending queue are all empty.                                       *)
C6_ShuffleClearsAll ==
    last_op.name = "shuffle" =>
        /\ recently_played = <<>>
        /\ history = <<>>
        /\ next_tracks_indices = <<>>

(* C7: with at least 3 tracks, when A was being played, a next or select *)
(* made B current and played it, and previous was called next, the      *)
(* current index is A again.                                            *)
C7_PreviousReturns ==
    (NumTracks >= 3 /\ last_op.name = "previous" /\ last_op.back # NoIndex)
        => current_track_index = last_op.back

(* C7 witness: previous has stepped back from B to a different track A, *)
(* which is not the index before B.                                     *)
C7_Witness ==
    /\ NumTracks >= 3
    /\ last_op.name = "previous"
    /\ last_op.back # NoIndex
    /\ last_op.prior # NoIndex /\ last_op.prior # last_op.back
    /\ last_op.back # (last_op.prior - 1) % NumTracks
    /\ current_track_index = last_op.back
    /\ is_playing

SelectValid ==
    /\ \E index \in Indices(World) :
          Call("client", "select", {play_song_by_index(World, index)})
    /\ IdlePoll

Plays(i) ==
    /\ is_playing' /\ music' = "playing"
    /\ loaded' = At(playlist_paths, i)
    /\ current_track_index' = i

BackendUntouched == ~is_playing' /\ music' = music /\ loaded' = loaded

(* C8, as claimed: next(random), next(similar), previous and select called *)
(* while not Playing ask nothing of the backend and leave status not       *)
(* Playing; called while Playing, one that selects a track loads and plays *)
(* it.                                                                     *)
C8_DualModeAll ==
    [][ (NextRandom \/ NextSimilar \/ Previous \/ SelectValid)
        => IF ~is_playing
           THEN BackendUntouched
           ELSE ~last_op'.raised => Plays(current_track_index')
      ]_vars

(* C8, amended: the above for next(random), next(similar) and previous; *)
(* select with a valid index i always makes i current, loads and plays  *)
(* it and sets status Playing.                                          *)
C8_DualMode ==
    [][ /\ (Called({"next_random", "next_similar", "previous"})
            /\ (NextRandom \/ NextSimilar \/ Previous))
           => IF ~is_playing
              THEN BackendUntouched
              ELSE ~last_op'.raised => Plays(current_track_index')
        /\ \A i \in Indices(World) :
              (Called({"select"})
               /\ Call("client", "select", {play_song_by_index(World, i)})
               /\ IdlePoll)
                 => Plays(i)
      ]_vars

(* C8 witness: previous, called while paused, moved the selection and *)
(* the backend still holds the paused track.                          *)
C8_Witness ==
    /\ last_op.name = "previous"
    /\ ~is_playing /\ music = "paused"
    /\ loaded # At(playlist_paths, current_track_index)

(* C9: when next(random) has completed the pending queue is empty and    *)
(* recently_played holds nothing it held before: it is empty, or holds   *)
(* only the index just selected, which play_current_track recorded while *)
(* Playing.                                                              *)
C9_RandomReset ==
    last_op.name = "next_random" =>
        /\ next_tracks_indices = <<>>
        /\ recently_played =
               IF is_playing /\ NumTracks > 1 THEN <<current_track_index>> ELSE <<>>

(* C9 witness: a track was playing, next(random) chose another one and *)
(* recently_played holds that one alone.                               *)
C9_Witness ==
    /\ NumTracks >= 3
    /\ last_op.name = "next_random"
    /\ last_op.prior # NoIndex /\ last_op.prior # current_track_index
    /\ recently_played = <<current_track_index>>
    /\ Len(history) = NumTracks - 1

(* C10: current_track_index is always an index of the playlist. *)
C10_IndexValid ==
    0 <= current_track_index /\ current_track_index < NumTracks

(* C10 witness: previous at index 0 with no history to step back in *)
(* wraps to the last index.                                         *)
C10_Witness ==
    /\ NumTracks >= 2
    /\ last_op.name = "previous"
    /\ history = <<>>
    /\ current_track_index = NumTracks - 1

(* C11: toggle while Playing pauses the backend and changes nothing else; *)
(* toggle while not Playing sets status Playing, and loads and starts the  *)
(* current track only if the backend holds no track: otherwise it resumes  *)
(* the loaded track, without a load and without an append to history or    *)
(* recently_played.                                                        *)
C11_ToggleTransitions ==
    [][ Toggle =>
        /\ UNCHANGED <<playlist_paths, music_embeddings, current_track_index,
                       next_tracks_indices>>
        /\ IF is_playing
           THEN /\ ~is_playing' /\ music' = "paused"
                /\ UNCHANGED <<current_embedding, history, recently_played, loaded>>
           ELSE /\ is_playing' /\ music' = "playing"
                /\ IF loaded = "none"
                   THEN /\ last_op'.played
                        /\ loaded' = At(playlist_paths, current_track_index)
                   ELSE /\ ~last_op'.played
                        /\ UNCHANGED <<history, recently_played, loaded>>
      ]_vars

(* C12: after a run of initialize_embeddings, every file whose bytes were *)
(* written since the run before missed the cache and was embedded again,  *)
(* and no two files that hold different bytes were given the same cache   *)
(* file.                                                                  *)
C12_FingerprintSensitive ==
    run_log.ran =>
        /\ \A f \in run_log.written : run_log.calls[f] = 1
        /\ \A f, g \in Files :
              last_seen[f] # last_seen[g]
                 => cache_file(last_seen, f) # cache_file(last_seen, g)

(* C13: the first run over an empty cache embeds every file exactly once *)
(* and leaves a cache record under its cache file; a run that finds the  *)
(* files as the run before left them embeds nothing and gives every file *)
(* the vector the run before gave it.                                    *)
C13_CacheIdempotent ==
    /\ (run_log.ran /\ run_log.first) =>
          \A f \in Files :
             /\ run_log.calls[f] = 1
             /\ exists(cache_directory, cache_file(last_seen, f))
    /\ (run_log.ran /\ ~run_log.first /\ run_log.written = {}) =>
          \A f \in Files :
             /\ run_log.calls[f] = 0
             /\ run_log.vectors[f] = run_log.prev[f]

(* C14: play_song_by_index with an index outside 0 <= i < n changes      *)
(* nothing of the session and asks nothing of the backend; with a valid  *)
(* i it makes i current with the pending queue emptied and with          *)
(* recently_played emptied of all it held (it holds i alone once i is    *)
(* played, nothing when the deque has maxlen 0).                         *)
C14_InvalidIndexRejected ==
    [][ \A i \in SelectIndices :
          (Called({"select"})
           /\ Call("client", "select", {play_song_by_index(World, i)})
           /\ IdlePoll)
             => IF 0 <= i /\ i < NumTracks
                THEN /\ current_track_index' = i
                     /\ next_tracks_indices' = <<>>
                     /\ recently_played' = IF NumTracks > 1 THEN <<i>> ELSE <<>>
                ELSE /\ ~last_op'.played
                     /\ UNCHANGED <<playlist_paths, music_embeddings,
                                    current_embedding, current_track_index,
                                    next_tracks_indices, is_playing, history,
                                    recently_played, loaded, music>>
      ]_vars

(* C14 witness: a select with an invalid index has returned while a track *)
(* plays and the pending queue and recently_played are not empty.         *)
C14_Witness ==
    /\ last_op.name = "select" /\ ~last_op.played
    /\ is_playing
    /\ next_tracks_indices # <<>>
    /\ recently_played # <<>>

(* C15: with a current vector, like replaces the pending queue, empty or *)
(* not, by what find_nearest_embeddings returns for the current vector   *)
(* and the current recently_played, and changes nothing else; without a  *)
(* current vector it changes nothing.                                    *)
C15_LikeRefills ==
    [][ (Called({"like"}) /\ Like) =>
        /\ UNCHANGED <<playlist_paths, music_embeddings, current_embedding,
                       current_track_index, is_playing, history,
                       recently_played, loaded, music>>
        /\ IF current_embedding # None
           THEN next_tracks_indices' \in find_nearest_embeddings(World)
           ELSE next_tracks_indices' = next_tracks_indices
      ]_vars

(* C15 witness: like was called with a current vector and a non-empty *)
(* queue whose head had been consumed, and left a full fresh queue.   *)
C15_Witness ==
    /\ NumTracks >= 3
    /\ last_op.name = "like" /\ last_op.queued
    /\ current_embedding # None
    /\ recently_played # <<>>
    /\ Len(next_tracks_indices) = NumTracks

Pairs ==
    { <<playlist_paths[i], music_embeddings[i]>> :
        i \in 1 .. Min(Len(playlist_paths), Len(music_embeddings)) }

OriginalPairs ==
    { <<Catalog[i], Vec(Catalog[i])>> : i \in 1 .. Len(playlist_paths) }

(* C16, as claimed: in every state, the states while shuffle_playlist is *)
(* in progress included, the (path, vector) pairs are those of the       *)
(* playlist as it was built.                                             *)
C16_ParallelAlways == Pairs = OriginalPairs

(* C16, amended: the pairs are those of the playlist as it was built in *)
(* every state but the one between the two stores of line 207, and in   *)
(* that state no thread but main's runs.                                *)
C16_Parallel ==
    /\ main_pc # "store_embeddings" => Pairs = OriginalPairs
    /\ main_pc # "threads" => (last_op = NoOp /\ alive = Threads)

(* C16 witness: shuffle_playlist has changed the order and a track of the *)
(* new order other than the first plays.                                 *)
C16_Witness ==
    /\ main_pc = "threads"
    /\ NumTracks >= 3
    /\ playlist_paths # SubSeq(Catalog, 1, NumTracks)
    /\ is_playing /\ current_track_index > 0
    /\ loaded = At(playlist_paths, current_track_index)

(* The indices find_nearest_embeddings may not exclude *)
Candidates == { i \in Indices(World) : i \notin Elems(recently_played) }

(* i comes before j: it is closer to the current vector, or as close and *)
(* of smaller index                                                      *)
Before(i, j) ==
    LET di == Dist2(At(music_embeddings, i), current_embedding)
        dj == Dist2(At(music_embeddings, j), current_embedding)
    IN  di < dj \/ (di = dj /\ i < j)

(* The k nearest candidates in ascending distance, ties by index *)
NearestCandidates ==
    [r \in 1 .. Min(K, Cardinality(Candidates)) |->
        CHOOSE i \in Candidates :
            Cardinality({ j \in Candidates : Before(j, i) }) = r - 1]

(* C17: the queue find_nearest_embeddings returns (through like) is the *)
(* list of the k non-excluded indices nearest to the current vector, in *)
(* ascending distance, equal distances in ascending index.              *)
C17_NearestCorrect ==
    [][ (Like /\ current_embedding # None)
        => next_tracks_indices' = NearestCandidates ]_vars

(* C18: the poll loop calls next_track(similar=True) for a track-finished *)
(* event only while the track the backend holds has finished: never while *)
(* a track started or paused after the event is still to be played.       *)
C18_AdvanceOnlyFinished == [][ PollHandle => music = "idle" ]_vars

(* C19: whenever current_embedding is set it is the embedding stored at *)
(* current_track_index.                                                 *)
C19_VectorFaithful ==
    current_embedding # None
        => current_embedding = At(music_embeddings, current_track_index)

(* C20: whenever status is Playing, the track the backend holds is the *)
(* track at playlist_paths[current_track_index].                       *)
C20_AudioInStep ==
    is_playing => loaded = At(playlist_paths, current_track_index)

====
